---- MODULE Spec2Model ----
(***************************************************************************)
(* Model of the chat client: the streaming message client                  *)
(* (ChatAPI.sendMessageStream, src/src/api/chat.ts) and the conversation   *)
(* state kept by ChatContextProvider (src/src/contexts/ChatContext.tsx).   *)
(*                                                                         *)
(* Text is a sequence of one-character strings, so that splitting a chunk  *)
(* on newlines, testing the "data: " prefix, slicing and truncating a      *)
(* title are computed character by character as the code computes them.    *)
(***************************************************************************)
EXTENDS Integers, Sequences, FiniteSets, TLC

VARIABLES
    user,           \* useAuth().user, TRUE when a user is signed in
    conversations,  \* query cache, key ['conversations']
    messages,       \* query cache, key ['conversations', id, 'messages']
    state,          \* ChatState of ChatContextProvider (useState)
    sends,          \* the sendMessage calls made so far, with their closures
    now,            \* the clock read by new Date()
    nextId,         \* next conversation id the backend hands out
    frames,         \* number of frames dispatched so far in the session
    body,           \* text of the response body of the streamed request
    rpos,           \* characters of body already handed out by reader.read()
    calls,          \* callbacks invoked by sendMessageStream, in order
    releases,       \* number of reader.releaseLock() calls
    result,         \* how the promise of sendMessageStream settled
    titled,         \* history: <<conversation id, title>> set by the auto-title rule
    deletes,        \* the deleteConversation calls awaiting their response
    ops             \* the queries and mutations run by the query client

vars == <<user, conversations, messages, state, sends, now, nextId, frames,
          body, rpos, calls, releases, result, titled, deletes, ops>>

ctxVars == <<user, conversations, messages, state, sends, now, nextId, frames,
             titled, deletes>>
streamVars == <<body, rpos, calls, releases, result>>

-----------------------------------------------------------------------------
(* Bounds of the model.                                                    *)

MaxLines == 3      \* lines of a response body split at arbitrary offsets
MaxExchange == 5   \* frames of one exchange followed frame by frame
MaxFrames == 3     \* frames dispatched in a session
MaxSends == 2      \* sendMessage calls in a session
MaxConvs == 2      \* conversations the backend creates in a session
MaxDeletes == 1    \* deleteConversation calls awaiting their response at a time
MaxManageFrames == 2   \* frames dispatched while the sidebar is in use
MaxNow == 1        \* ticks of the clock
MaxIdFrames == 4   \* frames dispatched in a session with fresh message ids
MaxFailures == 5   \* failed attempts of one query or mutation

-----------------------------------------------------------------------------
(* Text.                                                                   *)

Chars(n, c) == [i \in 1..n |-> c]

NL == "\n"

DataPrefix == <<"d", "a", "t", "a", ":", " ">>

StartsWith(s, p) ==
    /\ Len(s) >= Len(p)
    /\ SubSeq(s, 1, Len(p)) = p

\* line.slice(n): the text after the first n characters
Slice(s, n) == SubSeq(s, n + 1, Len(s))

\* s.substring(0, n)
Substring0(s, n) == SubSeq(s, 1, IF n < Len(s) THEN n ELSE Len(s))

\* index of the first newline of s, 0 when there is none
RECURSIVE FirstNL(_, _)
FirstNL(s, i) ==
    IF i > Len(s) THEN 0
    ELSE IF s[i] = NL THEN i
    ELSE FirstNL(s, i + 1)

\* chunk.split('\n'): the pieces between newlines, the last one included
RECURSIVE Split(_)
Split(s) ==
    LET k == FirstNL(s, 1)
    IN  IF k = 0 THEN <<s>>
        ELSE <<SubSeq(s, 1, k - 1)>> \o Split(SubSeq(s, k + 1, Len(s)))

RECURSIVE Concat(_)
Concat(ss) == IF ss = <<>> THEN <<>> ELSE Head(ss) \o Concat(Tail(ss))


-----------------------------------------------------------------------------
(* Values.                                                                 *)

Null == "null"

\* the timestamp strings of the backend are passed through untouched
Timestamp == "t"

NewChat == <<"N", "e", "w", " ", "C", "h", "a", "t">>

SendFailed == "Failed to send message. Please try again."

TitleLimit == 50

\* the message ids a backend issues: "0" is issued to no message
IdChars == {ToString(n) : n \in 0..MaxIdFrames}
TextChars == {"x", "y", "h"}

\* the message texts a user types: short, exactly at the limit, one over it
ShortMessage == <<"h", "i">>
LimitMessage == Chars(TitleLimit, "m")
LongMessage == Chars(TitleLimit + 1, "m")
Messages == {ShortMessage, LimitMessage, LongMessage}

-----------------------------------------------------------------------------
(* The JSON objects of the wire contract, and their text.                  *)
(* A payload is written "{" tag fields "}" with one character per field;   *)
(* JSONParse accepts exactly the texts JSONStringify writes and throws on  *)
(* every other text, so a piece of a payload is never a payload.           *)

UserMessageData(id, content) ==
    [type |-> "user_message",
     message |-> [id |-> id, role |-> "user", content |-> <<content>>,
                  timestamp |-> Timestamp]]

AssistantMessageStartData(id) ==
    [type |-> "assistant_message_start", messageId |-> id, timestamp |-> Timestamp]

ContentData(content, id) ==
    [type |-> "content", content |-> <<content>>, messageId |-> id]

EndData(id) == [type |-> "end", messageId |-> id]

ErrorData(text) == [type |-> "error", error |-> <<text>>]

\* a well-formed object whose type the client has no case for
PingData == [type |-> "ping"]

JSONStringify(data) ==
    CASE data.type = "user_message" ->
            <<"{", "U", data.message.id>> \o data.message.content \o <<"}">>
      [] data.type = "assistant_message_start" -> <<"{", "S", data.messageId, "}">>
      [] data.type = "content" -> <<"{", "C">> \o data.content \o <<data.messageId, "}">>
      [] data.type = "end" -> <<"{", "E", data.messageId, "}">>
      [] data.type = "error" -> <<"{", "X">> \o data.error \o <<"}">>
      [] OTHER -> <<"{", "P", "}">>

\* JSON.parse: [ok |-> TRUE, data |-> object], or [ok |-> FALSE] for a SyntaxError
JSONParse(text) ==
    LET n == Len(text)
        f == SubSeq(text, 2, n - 1)
    IN  IF n < 2 \/ text[1] # "{" \/ text[n] # "}" THEN [ok |-> FALSE]
        ELSE IF Len(f) = 3 /\ f[1] = "U" /\ f[2] \in IdChars /\ f[3] \in TextChars
            THEN [ok |-> TRUE, data |-> UserMessageData(f[2], f[3])]
        ELSE IF Len(f) = 2 /\ f[1] = "S" /\ f[2] \in IdChars
            THEN [ok |-> TRUE, data |-> AssistantMessageStartData(f[2])]
        ELSE IF Len(f) = 3 /\ f[1] = "C" /\ f[2] \in TextChars /\ f[3] \in IdChars
            THEN [ok |-> TRUE, data |-> ContentData(f[2], f[3])]
        ELSE IF Len(f) = 2 /\ f[1] = "E" /\ f[2] \in IdChars
            THEN [ok |-> TRUE, data |-> EndData(f[2])]
        ELSE IF Len(f) = 2 /\ f[1] = "X" /\ f[2] \in TextChars
            THEN [ok |-> TRUE, data |-> ErrorData(f[2])]
        ELSE IF f = <<"P">>
            THEN [ok |-> TRUE, data |-> PingData]
        ELSE [ok |-> FALSE]

\* one newline-terminated line of a response body
DataLine(data) == DataPrefix \o JSONStringify(data) \o <<NL>>

\* the line "data: {n}": a data line whose payload is not JSON
MalformedLine == DataPrefix \o <<"{", "n", "}", NL>>

BlankLine == <<NL>>

-----------------------------------------------------------------------------
(* The conversation state cache.  A world w is what the callbacks read and *)
(* write: [conversations, messages, state, now].  w.conversations is the   *)
(* cached list (records [id, title, updatedAt]); w.messages maps the ids   *)
(* that have a cached message list to that list (an id outside its DOMAIN  *)
(* has no cache entry: the updater's `old = []` default applies).          *)

World == [conversations |-> conversations, messages |-> messages,
          state |-> state, now |-> now]

\* queryClient.getQueryData(QUERY_KEYS.messages(id)) with the `old = []` default
OldMessages(w, conversationId) ==
    IF conversationId \in DOMAIN w.messages THEN w.messages[conversationId] ELSE <<>>

\* queryClient.setQueryData(QUERY_KEYS.messages(id), list)
SetMessages(w, conversationId, list) ==
    [w EXCEPT !.messages =
        [c \in DOMAIN w.messages \cup {conversationId} |->
            IF c = conversationId THEN list ELSE w.messages[c]]]

\* { ...msg, isStreaming: b }
WithIsStreaming(msg, b) ==
    [f \in DOMAIN msg \cup {"isStreaming"} |-> IF f = "isStreaming" THEN b ELSE msg[f]]

\* an append that puts the message in front of the list
addMessageToCacheAtHead(w, conversationId, message) ==
    LET w1 == SetMessages(w, conversationId,
                          <<message>> \o OldMessages(w, conversationId))
        Bump(conv) == IF conv.id = conversationId
                      THEN [conv EXCEPT !.updatedAt = w.now]
                      ELSE conv
    IN  [w1 EXCEPT !.conversations =
                      [k \in DOMAIN w.conversations |-> Bump(w.conversations[k])]]

\* an append that writes the message twice
addMessageToCacheTwice(w, conversationId, message) ==
    LET w1 == SetMessages(w, conversationId,
                          OldMessages(w, conversationId) \o <<message, message>>)
        Bump(conv) == IF conv.id = conversationId
                      THEN [conv EXCEPT !.updatedAt = w.now]
                      ELSE conv
    IN  [w1 EXCEPT !.conversations =
                      [k \in DOMAIN w.conversations |-> Bump(w.conversations[k])]]

addMessageToCache(w, conversationId, message) ==
    LET w1 == SetMessages(w, conversationId,
                          Append(OldMessages(w, conversationId), message))
        Bump(conv) == IF conv.id = conversationId
                      THEN [conv EXCEPT !.updatedAt = w.now]
                      ELSE conv
    IN  [w1 EXCEPT !.conversations =
                      [k \in DOMAIN w.conversations |-> Bump(w.conversations[k])]]

\* a patch that puts the fragment in front of the content
updateMessageInCachePrepend(w, conversationId, messageId, content, append) ==
    LET Patch(msg) == IF msg.id = messageId
                      THEN [msg EXCEPT !.content = IF append THEN content \o @
                                                   ELSE content]
                      ELSE msg
        old == OldMessages(w, conversationId)
    IN  SetMessages(w, conversationId, [k \in DOMAIN old |-> Patch(old[k])])

updateMessageInCache(w, conversationId, messageId, content, append) ==
    LET Patch(msg) == IF msg.id = messageId
                      THEN [msg EXCEPT !.content = IF append THEN @ \o content
                                                   ELSE content]
                      ELSE msg
        old == OldMessages(w, conversationId)
    IN  SetMessages(w, conversationId, [k \in DOMAIN old |-> Patch(old[k])])

\* message.length > 50 ? message.substring(0, 50) + '...' : message
TitleOf(message) ==
    IF Len(message) > TitleLimit
    THEN Substring0(message, TitleLimit) \o <<".", ".", ".">>
    ELSE message

\* The five callbacks sendMessage hands to sendMessageStream.  s is the
\* closure of the sendMessage call: s.message, s.target (the local
\* currentConversationId), s.conversations (ids of the conversations list the
\* closure captured) and s.currentMessagesLength (length of the captured
\* currentMessages).

\* an onUserMessage that writes to the conversation selected when it runs
onUserMessageToSelected(w, s, userMessage) ==
    addMessageToCache(w, w.state.currentConversationId, userMessage)

onUserMessage(w, s, userMessage) == addMessageToCache(w, s.target, userMessage)

onAssistantMessageStart(w, s, messageId, timestamp) ==
    LET assistantMessage == [id |-> messageId, role |-> "assistant", content |-> <<>>,
                             timestamp |-> timestamp, isStreaming |-> TRUE]
        w1 == addMessageToCache(w, s.target, assistantMessage)
    IN  [w1 EXCEPT !.state.isStreaming = TRUE,
                   !.state.streamingMessageId = messageId]

onContent(w, s, content, messageId) ==
    updateMessageInCache(w, s.target, messageId, content, TRUE)

\* an onEnd that marks the finalized message with a dot each time it runs
onEndDots(w, s, messageId) ==
    LET w1 == [w EXCEPT !.state.isStreaming = FALSE,
                        !.state.streamingMessageId = Null]
        Finalize(msg) == IF msg.id = messageId
                         THEN [WithIsStreaming(msg, FALSE) EXCEPT !.content = @ \o <<".">>]
                         ELSE msg
        old == OldMessages(w1, s.target)
    IN  SetMessages(w1, s.target, [k \in DOMAIN old |-> Finalize(old[k])])

\* an onEnd that sets the title whatever the conversation showed at the send
onEndAnyLength(w, s, messageId) ==
    LET w1 == [w EXCEPT !.state.isStreaming = FALSE,
                        !.state.streamingMessageId = Null]
        Finalize(msg) == IF msg.id = messageId THEN WithIsStreaming(msg, FALSE) ELSE msg
        old == OldMessages(w1, s.target)
        w2 == SetMessages(w1, s.target, [k \in DOMAIN old |-> Finalize(old[k])])
        found == \E i \in DOMAIN s.conversations : s.conversations[i] = s.target
        Retitle(conv) == IF conv.id = s.target
                         THEN [conv EXCEPT !.title = TitleOf(s.message)]
                         ELSE conv
    IN  IF found
        THEN [w2 EXCEPT !.conversations =
                          [k \in DOMAIN w2.conversations |-> Retitle(w2.conversations[k])]]
        ELSE w2

onEnd(w, s, messageId) ==
    LET w1 == [w EXCEPT !.state.isStreaming = FALSE,
                        !.state.streamingMessageId = Null]
        Finalize(msg) == IF msg.id = messageId THEN WithIsStreaming(msg, FALSE) ELSE msg
        old == OldMessages(w1, s.target)
        w2 == SetMessages(w1, s.target, [k \in DOMAIN old |-> Finalize(old[k])])
        found == \E i \in DOMAIN s.conversations : s.conversations[i] = s.target
        Retitle(conv) == IF conv.id = s.target
                         THEN [conv EXCEPT !.title = TitleOf(s.message)]
                         ELSE conv
    IN  IF found /\ s.currentMessagesLength <= 1
        THEN [w2 EXCEPT !.conversations =
                          [k \in DOMAIN w2.conversations |-> Retitle(w2.conversations[k])]]
        ELSE w2

onError(w, s, error) ==
    [w EXCEPT !.state.error = SendFailed,
              !.state.isStreaming = FALSE,
              !.state.streamingMessageId = Null]

\* the catch block of sendMessage
CatchSend(w) ==
    [w EXCEPT !.state.error = SendFailed,
              !.state.isStreaming = FALSE,
              !.state.streamingMessageId = Null]

-----------------------------------------------------------------------------
(* sendMessageStream: the read loop.  acc is [w, calls]: the world and the *)
(* log of callback invocations; `at` is the offset in the body at which    *)
(* the dispatched line starts (kept in the log only).                      *)

Invoke(acc, w1, name, data, at) ==
    [w |-> w1, calls |-> Append(acc.calls, [cb |-> name, data |-> data, at |-> at])]

\* switch (data.type)
Dispatch(acc, s, data, at) ==
    CASE data.type = "user_message" ->
            Invoke(acc, onUserMessage(acc.w, s, data.message), "onUserMessage", data, at)
      [] data.type = "assistant_message_start" ->
            Invoke(acc, onAssistantMessageStart(acc.w, s, data.messageId, data.timestamp),
                   "onAssistantMessageStart", data, at)
      [] data.type = "content" ->
            Invoke(acc, onContent(acc.w, s, data.content, data.messageId),
                   "onContent", data, at)
      [] data.type = "end" ->
            Invoke(acc, onEnd(acc.w, s, data.messageId), "onEnd", data, at)
      [] data.type = "error" ->
            Invoke(acc, onError(acc.w, s, data.error), "onError", data, at)
      [] OTHER -> acc

\* the body of `for (const line of lines)`
ProcessLine(acc, s, line, at) ==
    IF StartsWith(line, DataPrefix)
    THEN LET r == JSONParse(Slice(line, Len(DataPrefix)))
         IN  IF r.ok THEN Dispatch(acc, s, r.data, at) ELSE acc
    ELSE acc

RECURSIVE ProcessLines(_, _, _, _)
ProcessLines(acc, s, lines, at) ==
    IF lines = <<>> THEN acc
    ELSE ProcessLines(ProcessLine(acc, s, Head(lines), at), s, Tail(lines),
                      at + Len(Head(lines)) + 1)

\* a loop body that runs twice over the lines of a chunk
ProcessChunkTwice(acc, s, chunk, at) ==
    ProcessLines(ProcessLines(acc, s, Split(chunk), at), s, Split(chunk), at)

\* one iteration of the while loop on a chunk that starts at offset `at`
ProcessChunk(acc, s, chunk, at) == ProcessLines(acc, s, Split(chunk), at)

-----------------------------------------------------------------------------
(* The retry policy of the query client (src/src/config/queryClient.ts).   *)
(* An error is [code |-> text], or NoCode for an error without a code.     *)

\* s.includes(sub)
Includes(s, sub) ==
    \E k \in 0..(Len(s) - Len(sub)) : SubSeq(s, k + 1, k + Len(sub)) = sub

AuthPrefix == <<"a", "u", "t", "h", "/">>

NoCode == [message |-> "failed"]

\* the error field of an operation that has not failed
NoError == [message |-> "none"]

\* error?.code?.includes('auth/')
IsAuthError(error) ==
    "code" \in DOMAIN error /\ Includes(error.code, AuthPrefix)

QueryRetries == 3
MutationRetries == 2

\* a policy for queries that retries whatever the count of failures
queriesRetryAlways(failureCount, error) == ~IsAuthError(error)

\* defaultOptions.queries.retry
queriesRetry(failureCount, error) ==
    IF IsAuthError(error) THEN FALSE ELSE failureCount < QueryRetries

\* defaultOptions.mutations.retry
mutationsRetry(failureCount, error) ==
    IF IsAuthError(error) THEN FALSE ELSE failureCount < MutationRetries

\* the operations of the chat context that run under the default options
Queries == {"conversations"}
Mutations == {"createConversation", "deleteConversation"}
Operations == Queries \cup Mutations

Retry(o, failureCount, error) ==
    IF o \in Queries THEN queriesRetry(failureCount, error)
    ELSE mutationsRetry(failureCount, error)

\* no operation has run yet
NoOps == [o \in Operations |-> [status |-> "idle", failureCount |-> 0, error |-> NoError]]

-----------------------------------------------------------------------------
(* The state machine.                                                      *)

ConvId(n) == ToString(n)

ConvIds(convs) == [i \in DOMAIN convs |-> convs[i].id]

HasConv(convs, id) == \E i \in DOMAIN convs : convs[i].id = id

\* data: currentMessages = [] of useConversationMessages(state.currentConversationId)
CurrentMessages ==
    IF state.currentConversationId # Null
       /\ state.currentConversationId \in DOMAIN messages
    THEN messages[state.currentConversationId]
    ELSE <<>>

NoMessages == [c \in {} |-> <<>>]

\* the useEffect of the provider, run after a render: without a user it
\* clears the query cache and the selection; with one it selects the first
\* conversation when none is selected
Effect(w, signedIn) ==
    IF ~signedIn
    THEN [w EXCEPT !.conversations = <<>>,
                   !.messages = NoMessages,
                   !.state.currentConversationId = Null]
    ELSE IF Len(w.conversations) > 0 /\ w.state.currentConversationId = Null
         THEN [w EXCEPT !.state.currentConversationId = w.conversations[1].id]
         ELSE w

\* the writes of a step land, the provider renders and its effect runs
SetWorld(w) ==
    LET e == Effect(w, user)
    IN  /\ conversations' = e.conversations
        /\ messages' = e.messages
        /\ state' = e.state

\* the titles the step's onEnd callbacks gave to conversations, added to the
\* history
AutoTitled ==
    titled \cup {<<conversations[k].id, conversations'[k].title>> :
                    k \in {j \in DOMAIN conversations \cap DOMAIN conversations' :
                              conversations'[j].title # conversations[j].title}}

\* a sendMessage call that has returned: its closure is dropped
Returned == [pc |-> "done"]

Init ==
    /\ user = TRUE
    /\ conversations = <<>>
    /\ messages = NoMessages
    /\ state = [currentConversationId |-> Null, isStreaming |-> FALSE,
                streamingMessageId |-> Null, error |-> Null]
    /\ sends = <<>>
    /\ now = 0
    /\ nextId = 1
    /\ frames = 0
    /\ body = <<>>
    /\ rpos = 0
    /\ calls = <<>>
    /\ releases = 0
    /\ result = "none"
    /\ titled = {}
    /\ deletes = {}
    /\ ops = NoOps

\* an onSuccess handler of create that puts the conversation at the tail
CreateSuccessAtTail(w, id) ==
    [w EXCEPT !.conversations = w.conversations \o
                                <<[id |-> id, title |-> NewChat, updatedAt |-> w.now]>>,
              !.messages = [c \in DOMAIN w.messages \cup {id} |->
                                IF c = id THEN <<>> ELSE w.messages[c]]]

\* the onSuccess handler of useCreateConversation, for the conversation the
\* backend answered with
CreateSuccess(w, id) ==
    [w EXCEPT !.conversations = <<[id |-> id, title |-> NewChat, updatedAt |-> w.now]>>
                                \o w.conversations,
              !.messages = [c \in DOMAIN w.messages \cup {id} |->
                                IF c = id THEN <<>> ELSE w.messages[c]]]

\* createNewConversation, at the time the create request succeeds
createNewConversation ==
    /\ user
    /\ nextId <= MaxConvs
    /\ LET id == ConvId(nextId)
           w1 == CreateSuccess(World, id)
       IN  SetWorld([w1 EXCEPT !.state.currentConversationId = id])
    /\ nextId' = nextId + 1
    /\ UNCHANGED <<ops, deletes, titled, user, sends, now, frames>>

selectConversation(conversationId) ==
    /\ HasConv(conversations, conversationId)
    /\ state' = [state EXCEPT !.currentConversationId = conversationId]
    /\ UNCHANGED <<ops, deletes, titled, user, conversations, messages, sends, now, nextId, frames>>

\* an onSuccess handler of clear that leaves the title alone
ClearSuccessKeepsTitle(w, conversationId) ==
    LET Reset(conv) == IF conv.id = conversationId
                       THEN [conv EXCEPT !.updatedAt = w.now]
                       ELSE conv
    IN  [SetMessages(w, conversationId, <<>>)
            EXCEPT !.conversations =
                       [k \in DOMAIN w.conversations |-> Reset(w.conversations[k])]]

\* the onSuccess handler of useClearConversation
ClearSuccess(w, conversationId) ==
    LET Reset(conv) == IF conv.id = conversationId
                       THEN [conv EXCEPT !.title = NewChat, !.updatedAt = w.now]
                       ELSE conv
    IN  [SetMessages(w, conversationId, <<>>)
            EXCEPT !.conversations =
                       [k \in DOMAIN w.conversations |-> Reset(w.conversations[k])]]

\* clearConversation, at the time the clear request succeeds
clearConversation(conversationId) ==
    /\ HasConv(conversations, conversationId)
    /\ SetWorld(ClearSuccess(World, conversationId))
    /\ UNCHANGED <<ops, deletes, titled, user, sends, now, nextId, frames>>

\* renderMessages shows the welcome screen with its suggestion buttons
WelcomeScreen ==
    \/ ~HasConv(conversations, state.currentConversationId)
    \/ Len(CurrentMessages) = 0

\* handleSendMessage -> sendMessage(message), up to its first await
sendMessage(message) ==
    /\ ~state.isStreaming \/ WelcomeScreen
    /\ IF ~user
       THEN /\ SetWorld([World EXCEPT
                           !.state.error = "You must be logged in to send messages"])
            /\ UNCHANGED sends
       ELSE /\ state' = [state EXCEPT !.error = Null]
            /\ UNCHANGED <<conversations, messages>>
            /\ sends' = Append(sends,
                  [pc |-> IF state.currentConversationId = Null
                          THEN "creating" ELSE "fetching",
                   message |-> message,
                   target |-> state.currentConversationId,
                   conversations |-> ConvIds(conversations),
                   currentMessagesLength |-> Len(CurrentMessages)])
    /\ UNCHANGED <<ops, deletes, titled, user, now, nextId, frames>>

\* await createNewConversation() inside sendMessage succeeds
SendCreated(i) ==
    /\ sends[i].pc = "creating"
    /\ nextId <= MaxConvs
    /\ LET id == ConvId(nextId)
           w1 == CreateSuccess(World, id)
       IN  /\ SetWorld([w1 EXCEPT !.state.currentConversationId = id])
           /\ sends' = [sends EXCEPT ![i].pc = "fetching", ![i].target = id]
    /\ nextId' = nextId + 1
    /\ UNCHANGED <<ops, deletes, titled, user, now, frames>>

\* await createNewConversation() inside sendMessage throws
SendCreateFails(i) ==
    /\ sends[i].pc = "creating"
    /\ SetWorld(CatchSend(World))
    /\ sends' = [sends EXCEPT ![i] = Returned]
    /\ UNCHANGED <<ops, deletes, titled, user, now, nextId, frames>>

\* sendMessageStream throws before the read loop: the response is not ok
ResponseNotOk(i) ==
    /\ sends[i].pc = "fetching"
    /\ SetWorld(CatchSend(World))
    /\ sends' = [sends EXCEPT ![i] = Returned]
    /\ UNCHANGED <<ops, deletes, titled, user, now, nextId, frames>>

\* sendMessageStream throws before the read loop: response.body has no reader
NoReader(i) ==
    /\ sends[i].pc = "fetching"
    /\ SetWorld(CatchSend(World))
    /\ sends' = [sends EXCEPT ![i] = Returned]
    /\ UNCHANGED <<ops, deletes, titled, user, now, nextId, frames>>

\* response.ok and a reader: the read loop starts
StreamOpens(i) ==
    /\ sends[i].pc = "fetching"
    /\ sends' = [sends EXCEPT ![i].pc = "reading"]
    /\ UNCHANGED <<ops, deletes, titled, user, conversations, messages, state, now, nextId, frames>>

\* some callback of the chunk wrote to the provider's state or to the
\* conversations query, which the provider observes: onContent writes only
\* to a messages query, which is observed for the selected conversation
Renders(log) == \E k \in DOMAIN log : log[k].cb # "onContent"

\* reader.read() yields a chunk holding the line of one object, and the loop
\* body runs on it
StreamFrame(i, data) ==
    /\ sends[i].pc = "reading"
    /\ LET acc == ProcessChunk([w |-> World, calls |-> <<>>], sends[i],
                               DataLine(data), 0)
       IN  IF user \/ Renders(acc.calls)
           THEN SetWorld(acc.w)
           ELSE /\ conversations' = acc.w.conversations
                /\ messages' = acc.w.messages
                /\ state' = acc.w.state
    /\ titled' = AutoTitled
    /\ frames' = frames + 1
    /\ UNCHANGED <<ops, deletes, user, sends, now, nextId>>

\* a clean close that also ends the stream session
StreamClosesEndsSession(i) ==
    /\ sends[i].pc = "reading"
    /\ sends' = [sends EXCEPT ![i] = Returned]
    /\ state' = [state EXCEPT !.isStreaming = FALSE, !.streamingMessageId = Null]
    /\ UNCHANGED <<ops, deletes, titled, user, conversations, messages, now, nextId, frames>>

\* reader.read() yields done: the loop ends, sendMessageStream resolves and
\* sendMessage returns
StreamCloses(i) ==
    /\ sends[i].pc = "reading"
    /\ sends' = [sends EXCEPT ![i] = Returned]
    /\ UNCHANGED <<ops, deletes, titled, user, conversations, messages, state, now, nextId, frames>>

\* a rejected read that sendMessage swallows
StreamReadFailsSilently(i) ==
    /\ sends[i].pc = "reading"
    /\ sends' = [sends EXCEPT ![i] = Returned]
    /\ UNCHANGED <<ops, deletes, titled, user, conversations, messages, state, now, nextId, frames>>

\* reader.read() rejects: the rejection reaches the catch block of sendMessage
StreamReadFails(i) ==
    /\ sends[i].pc = "reading"
    /\ SetWorld(CatchSend(World))
    /\ sends' = [sends EXCEPT ![i] = Returned]
    /\ UNCHANGED <<ops, deletes, titled, user, now, nextId, frames>>

-----------------------------------------------------------------------------
(* Spec: a session of one signed-in user, frame by frame: what the read    *)
(* loops of its sendMessage calls do to the cache when the backend's lines *)
(* arrive one per chunk, interleaved with the user's other operations.     *)

\* the objects the backend streams
FrameData ==
    {UserMessageData("1", "h"), AssistantMessageStartData("2"),
     ContentData("x", "2"), ContentData("y", "2"), EndData("2"), ErrorData("x")}

\* the texts typed in a session
SessionMessages == {ShortMessage, LongMessage}

Next ==
    \/ createNewConversation /\ UNCHANGED streamVars
    \/ \E c \in 1..MaxConvs : selectConversation(ConvId(c)) /\ UNCHANGED streamVars
    \/ \E c \in 1..MaxConvs : clearConversation(ConvId(c)) /\ UNCHANGED streamVars
    \/ \E m \in SessionMessages :
          Len(sends) < MaxSends /\ sendMessage(m) /\ UNCHANGED streamVars
    \/ \E i \in DOMAIN sends : SendCreated(i) /\ UNCHANGED streamVars
    \/ \E i \in DOMAIN sends : SendCreateFails(i) /\ UNCHANGED streamVars
    \/ \E i \in DOMAIN sends : ResponseNotOk(i) /\ UNCHANGED streamVars
    \/ \E i \in DOMAIN sends : NoReader(i) /\ UNCHANGED streamVars
    \/ \E i \in DOMAIN sends : StreamOpens(i) /\ UNCHANGED streamVars
    \/ \E i \in DOMAIN sends : \E data \in FrameData :
          frames < MaxFrames /\ StreamFrame(i, data) /\ UNCHANGED streamVars
    \/ \E i \in DOMAIN sends : StreamCloses(i) /\ UNCHANGED streamVars
    \/ \E i \in DOMAIN sends : StreamReadFails(i) /\ UNCHANGED streamVars

Spec == Init /\ [][Next]_vars

-----------------------------------------------------------------------------
(* The first sendMessage call of a session, with the promise and the log   *)
(* of its sendMessageStream call.                                          *)

\* a status check that reports through onError before it throws
FetchNotOkCallsOnError ==
    /\ sends # <<>>
    /\ ResponseNotOk(1)
    /\ calls' = Append(calls, [cb |-> "onError", data |-> ErrorData("x"), at |-> 0])
    /\ result' = "rejected:status"
    /\ UNCHANGED <<body, rpos, releases>>

\* !response.ok
FetchNotOk ==
    /\ sends # <<>>
    /\ ResponseNotOk(1)
    /\ result' = "rejected:status"
    /\ UNCHANGED <<body, rpos, calls, releases>>

\* response.body?.getReader() is undefined
FetchNoReader ==
    /\ sends # <<>>
    /\ NoReader(1)
    /\ result' = "rejected:reader"
    /\ UNCHANGED <<body, rpos, calls, releases>>

-----------------------------------------------------------------------------
(* SpecExchange: one sendMessage call followed from the click to its       *)
(* return, frame by frame, with the log of the callbacks it invokes.       *)

ExchangeSetup ==
    /\ sends = <<>>
    /\ conversations = <<>>
    /\ createNewConversation
    /\ UNCHANGED streamVars

ExchangeSend(message) ==
    /\ sends = <<>>
    /\ sendMessage(message)
    /\ UNCHANGED streamVars

ExchangeCreated == sends # <<>> /\ SendCreated(1) /\ UNCHANGED streamVars

ExchangeCreateFails == sends # <<>> /\ SendCreateFails(1) /\ UNCHANGED streamVars

ExchangeOpens == sends # <<>> /\ StreamOpens(1) /\ UNCHANGED streamVars

\* the next line of the body arrives as one chunk
ExchangeFrame(data) ==
    /\ sends # <<>>
    /\ frames < MaxExchange
    /\ StreamFrame(1, data)
    /\ calls' = ProcessChunk([w |-> World, calls |-> calls], sends[1],
                             DataLine(data), rpos).calls
    /\ rpos' = rpos + Len(DataLine(data))
    /\ UNCHANGED <<body, releases, result>>

ExchangeCloses ==
    /\ sends # <<>>
    /\ StreamCloses(1)
    /\ releases' = releases + 1
    /\ result' = "resolved"
    /\ UNCHANGED <<body, rpos, calls>>

ExchangeReadFails ==
    /\ sends # <<>>
    /\ StreamReadFails(1)
    /\ releases' = releases + 1
    /\ result' = "rejected:read"
    /\ UNCHANGED <<body, rpos, calls>>

NextExchange ==
    \/ ExchangeSetup
    \/ \E m \in Messages : ExchangeSend(m)
    \/ ExchangeCreated
    \/ ExchangeCreateFails
    \/ FetchNotOk
    \/ FetchNoReader
    \/ ExchangeOpens
    \/ \E data \in FrameData : ExchangeFrame(data)
    \/ ExchangeCloses
    \/ ExchangeReadFails

SpecExchange == Init /\ [][NextExchange]_vars

-----------------------------------------------------------------------------
(* SpecStream: one sendMessage call into a selected, empty conversation,   *)
(* character by character: the response body is split into chunks at       *)
(* arbitrary offsets.                                                      *)

\* the lines a backend may write
StreamLines ==
    {DataLine(ContentData("x", "2")), DataLine(EndData("2")),
     DataLine(ErrorData("x")), MalformedLine}

\* the response bodies of at most MaxLines lines
Bodies ==
    {Concat(ls) : ls \in UNION {[1..n -> StreamLines] : n \in 0..MaxLines}}

InitStream ==
    /\ user = TRUE
    /\ conversations = <<[id |-> ConvId(1), title |-> NewChat, updatedAt |-> 0]>>
    /\ messages = [c \in {ConvId(1)} |-> <<>>]
    /\ state = [currentConversationId |-> ConvId(1), isStreaming |-> FALSE,
                streamingMessageId |-> Null, error |-> Null]
    /\ sends = <<[pc |-> "fetching", message |-> ShortMessage,
                  target |-> ConvId(1), conversations |-> <<ConvId(1)>>,
                  currentMessagesLength |-> 0]>>
    /\ now = 0
    /\ nextId = 2
    /\ frames = 0
    /\ body = <<>>
    /\ rpos = 0
    /\ calls = <<>>
    /\ releases = 0
    /\ result = "none"
    /\ titled = {}
    /\ deletes = {}
    /\ ops = NoOps

\* response.ok and response.body.getReader() succeeds; b is the body
ResponseBody(b) ==
    /\ StreamOpens(1)
    /\ body' = b
    /\ UNCHANGED <<rpos, calls, releases, result>>

\* reader.read() yields the next n characters; the loop body runs on them
ReadChunk(n) ==
    /\ sends[1].pc = "reading"
    /\ rpos + n <= Len(body)
    /\ LET chunk == SubSeq(body, rpos + 1, rpos + n)
           acc == ProcessChunk([w |-> World, calls |-> calls], sends[1], chunk, rpos)
       IN  /\ SetWorld(acc.w)
           /\ calls' = acc.calls
    /\ titled' = AutoTitled
    /\ rpos' = rpos + n
    /\ UNCHANGED <<ops, deletes, user, sends, now, nextId, frames, body, releases, result>>

\* reader.read() yields done after the last chunk
ReadDone ==
    /\ rpos = Len(body)
    /\ StreamCloses(1)
    /\ releases' = releases + 1
    /\ result' = "resolved"
    /\ UNCHANGED <<body, rpos, calls>>

\* a read loop without `finally`: a rejected read leaves the reader locked
ReadFailsKeepsLock ==
    /\ StreamReadFails(1)
    /\ result' = "rejected:read"
    /\ UNCHANGED <<body, rpos, calls, releases>>

\* reader.read() rejects
ReadFails ==
    /\ StreamReadFails(1)
    /\ releases' = releases + 1
    /\ result' = "rejected:read"
    /\ UNCHANGED <<body, rpos, calls>>

NextStream ==
    \/ FetchNotOk
    \/ FetchNoReader
    \/ \E b \in Bodies : ResponseBody(b)
    \/ \E n \in 1..(Len(body) - rpos) : ReadChunk(n)
    \/ ReadDone
    \/ ReadFails

SpecStream == InitStream /\ [][NextStream]_vars

-----------------------------------------------------------------------------
(* SpecManage: the sidebar's operations on the conversation list (create,  *)
(* select, delete, sign out) and clearConversation, around one sendMessage *)
(* call whose frames arrive one per chunk.                                 *)

\* time passes
Tick ==
    /\ now < MaxNow
    /\ now' = now + 1
    /\ UNCHANGED <<ops, user, conversations, messages, state, sends, nextId, frames,
                   titled, deletes>>

DeleteFailed == "Failed to delete conversation"
ClearFailed == "Failed to clear conversation"

\* conversations.filter(conv => conv.id !== conversationId), on the ids
RECURSIVE Without(_, _)
Without(ids, conversationId) ==
    IF ids = <<>> THEN <<>>
    ELSE IF Head(ids) = conversationId THEN Without(Tail(ids), conversationId)
         ELSE <<Head(ids)>> \o Without(Tail(ids), conversationId)

\* the onSuccess handler of useDeleteConversation
DeleteSuccess(w, conversationId) ==
    LET Keep(conv) == conv.id # conversationId
    IN  [w EXCEPT !.conversations = SelectSeq(w.conversations, Keep),
                  !.messages = [c \in DOMAIN w.messages \ {conversationId} |->
                                    w.messages[c]]]

\* handleConfirmDelete -> deleteConversation(conversationId), up to its await:
\* the call keeps the selection and the list of the render it was made in
deleteConversation(conversationId) ==
    /\ HasConv(conversations, conversationId)
    /\ deletes' = deletes \cup
          {[target |-> conversationId,
            currentConversationId |-> state.currentConversationId,
            conversations |-> ConvIds(conversations)]}
    /\ UNCHANGED <<ops, user, conversations, messages, state, sends, now, nextId,
                   frames, titled>>

\* the delete request succeeds: onSuccess, then the rest of deleteConversation
DeleteSucceeds(d) ==
    /\ d \in deletes
    /\ LET w1 == DeleteSuccess(World, d.target)
           remainingConversations == Without(d.conversations, d.target)
       IN  SetWorld(IF d.currentConversationId = d.target
                    THEN [w1 EXCEPT !.state.currentConversationId =
                                IF Len(remainingConversations) > 0
                                THEN remainingConversations[1] ELSE Null]
                    ELSE w1)
    /\ deletes' = deletes \ {d}
    /\ UNCHANGED <<ops, user, sends, now, nextId, frames, titled>>

\* the delete request fails: the catch block of deleteConversation
DeleteFails(d) ==
    /\ d \in deletes
    /\ SetWorld([World EXCEPT !.state.error = DeleteFailed])
    /\ deletes' = deletes \ {d}
    /\ UNCHANGED <<ops, user, sends, now, nextId, frames, titled>>

\* the clear request fails: the catch block of clearConversation
ClearFails(conversationId) ==
    /\ HasConv(conversations, conversationId)
    /\ SetWorld([World EXCEPT !.state.error = ClearFailed])
    /\ UNCHANGED <<ops, user, sends, now, nextId, frames, titled, deletes>>

\* handleNewChat -> createNewConversation() rejects (no user, or the create
\* request fails): nothing is written
CreateFails == UNCHANGED vars

\* a purge that keeps the message lists
SignOutKeepsMessages ==
    /\ user
    /\ user' = FALSE
    /\ conversations' = <<>>
    /\ state' = [state EXCEPT !.currentConversationId = Null]
    /\ UNCHANGED <<ops, messages, sends, now, nextId, frames, titled, deletes>>

\* useAuth().user becomes null; the provider renders and its effect runs
SignOut ==
    /\ user
    /\ user' = FALSE
    /\ LET e == Effect(World, FALSE)
       IN  /\ conversations' = e.conversations
           /\ messages' = e.messages
           /\ state' = e.state
    /\ UNCHANGED <<ops, sends, now, nextId, frames, titled, deletes>>

NextManage ==
    \/ Tick /\ UNCHANGED streamVars
    \/ createNewConversation /\ UNCHANGED streamVars
    \/ CreateFails
    \/ \E c \in 1..MaxConvs : selectConversation(ConvId(c)) /\ UNCHANGED streamVars
    \/ \E c \in 1..MaxConvs :
          /\ Cardinality(deletes) < MaxDeletes
          /\ deleteConversation(ConvId(c))
          /\ UNCHANGED streamVars
    \/ \E d \in deletes : DeleteSucceeds(d) /\ UNCHANGED streamVars
    \/ \E d \in deletes : DeleteFails(d) /\ UNCHANGED streamVars
    \/ \E c \in 1..MaxConvs : clearConversation(ConvId(c)) /\ UNCHANGED streamVars
    \/ \E c \in 1..MaxConvs : ClearFails(ConvId(c)) /\ UNCHANGED streamVars
    \/ SignOut /\ UNCHANGED streamVars
    \/ sends = <<>> /\ sendMessage(ShortMessage) /\ UNCHANGED streamVars
    \/ \E i \in DOMAIN sends : SendCreated(i) /\ UNCHANGED streamVars
    \/ \E i \in DOMAIN sends : SendCreateFails(i) /\ UNCHANGED streamVars
    \/ \E i \in DOMAIN sends : StreamOpens(i) /\ UNCHANGED streamVars
    \/ \E i \in DOMAIN sends : \E data \in FrameData :
          frames < MaxManageFrames /\ StreamFrame(i, data) /\ UNCHANGED streamVars
    \/ \E i \in DOMAIN sends : StreamCloses(i) /\ UNCHANGED streamVars
    \/ \E i \in DOMAIN sends : StreamReadFails(i) /\ UNCHANGED streamVars

SpecManage == Init /\ [][NextManage]_vars

-----------------------------------------------------------------------------
(* SpecIds: a session whose backend assigns every message a fresh id: the  *)
(* n-th frame of the session that carries a new message carries the id n.  *)

MessageId(n) == ToString(n)

\* the objects the backend can stream next: a new user or assistant message
\* under the next id, or a fragment or the end of the message sent last
NextFrameData ==
    {UserMessageData(MessageId(frames + 1), "h"),
     AssistantMessageStartData(MessageId(frames + 1)),
     ContentData("x", MessageId(frames)),
     EndData(MessageId(frames))}

NextIds ==
    \/ createNewConversation /\ UNCHANGED streamVars
    \/ \E c \in 1..MaxConvs : selectConversation(ConvId(c)) /\ UNCHANGED streamVars
    \/ \E c \in 1..MaxConvs : clearConversation(ConvId(c)) /\ UNCHANGED streamVars
    \/ Len(sends) < MaxSends /\ sendMessage(ShortMessage) /\ UNCHANGED streamVars
    \/ \E i \in DOMAIN sends : SendCreated(i) /\ UNCHANGED streamVars
    \/ \E i \in DOMAIN sends : StreamOpens(i) /\ UNCHANGED streamVars
    \/ \E i \in DOMAIN sends : \E data \in NextFrameData :
          frames < MaxIdFrames /\ StreamFrame(i, data) /\ UNCHANGED streamVars
    \/ \E i \in DOMAIN sends : StreamCloses(i) /\ UNCHANGED streamVars

SpecIds == Init /\ [][NextIds]_vars

-----------------------------------------------------------------------------
(* SpecRetry: the queries and mutations of the chat context, each run by   *)
(* the query client with its retries.  failureCount is the number of       *)
(* failed attempts before the running one, which is what the client hands  *)
(* to the retry function.                                                  *)

\* everything but the operations
chatVars == <<user, conversations, messages, state, sends, now, nextId, frames,
              body, rpos, calls, releases, result, titled, deletes>>

\* the errors an attempt can fail with: a thrown Error without a code, a
\* Firebase auth error, a code that holds "auth/" further in, another code
Errors ==
    {NoCode,
     [code |-> AuthPrefix \o <<"x">>],
     [code |-> <<"x", "/">> \o AuthPrefix],
     [code |-> <<"n", "e", "t">>]}

\* the operation is started: its first attempt runs
Start(o) ==
    /\ ops[o].status = "idle"
    /\ ops' = [ops EXCEPT ![o].status = "fetching"]
    /\ UNCHANGED chatVars

\* the running attempt succeeds
AttemptSucceeds(o) ==
    /\ ops[o].status = "fetching"
    /\ ops' = [ops EXCEPT ![o] = [status |-> "success", failureCount |-> 0,
                                  error |-> NoError]]
    /\ UNCHANGED chatVars

\* the running attempt fails with error e: the retry function decides
\* whether another attempt runs or the operation ends with the error
AttemptFails(o, e) ==
    /\ ops[o].status = "fetching"
    /\ ops[o].failureCount < MaxFailures
    /\ ops' = IF Retry(o, ops[o].failureCount, e)
              THEN [ops EXCEPT ![o].failureCount = @ + 1, ![o].error = e]
              ELSE [ops EXCEPT ![o].status = "error", ![o].error = e]
    /\ UNCHANGED chatVars

\* the running attempt of o comes to an end, one way or the other
AttemptEnds(o) == AttemptSucceeds(o) \/ \E e \in Errors : AttemptFails(o, e)

NextRetry ==
    \/ \E o \in Operations : Start(o)
    \/ \E o \in Operations : AttemptSucceeds(o)
    \/ \E o \in Operations : \E e \in Errors : AttemptFails(o, e)

SpecRetry ==
    Init /\ [][NextRetry]_vars /\ \A o \in Operations : WF_vars(AttemptEnds(o))

-----------------------------------------------------------------------------
(* What a body holds: its frames, read off the whole text.                 *)

CallbackTypes == {"user_message", "assistant_message_start", "content", "end", "error"}

\* the complete lines of a text (what follows the last newline is no line)
CompleteLines(b) == SubSeq(Split(b), 1, Len(Split(b)) - 1)

IsDataLine(l) == StartsWith(l, DataPrefix)

IsValidLine(l) == IsDataLine(l) /\ JSONParse(Slice(l, Len(DataPrefix))).ok

IsMalformedLine(l) == IsDataLine(l) /\ ~JSONParse(Slice(l, Len(DataPrefix))).ok

\* the frames of the lines, each with the offset of its line, in order
RECURSIVE FramesOfLines(_, _)
FramesOfLines(lines, at) ==
    IF lines = <<>> THEN <<>>
    ELSE LET l == Head(lines)
             here == IF IsValidLine(l)
                     THEN LET d == JSONParse(Slice(l, Len(DataPrefix))).data
                          IN  IF d.type \in CallbackTypes
                              THEN <<[data |-> d, at |-> at]>> ELSE <<>>
                     ELSE <<>>
         IN  here \o FramesOfLines(Tail(lines), at + Len(l) + 1)

FramesOf(b) == FramesOfLines(CompleteLines(b), 0)

\* the frames dispatched so far, with the offsets of their lines
Dispatched == [i \in DOMAIN calls |-> [data |-> calls[i].data, at |-> calls[i].at]]

Range(f) == {f[i] : i \in DOMAIN f}

WellFormed(b) == \A i \in DOMAIN CompleteLines(b) : IsValidLine(CompleteLines(b)[i])

-----------------------------------------------------------------------------
(* Claims about sendMessageStream.                                         *)

\* C1: for a well-formed body, every way of splitting it into chunks makes
\* sendMessageStream dispatch the same ordered sequence of events, the one
\* the whole text holds: once the promise has resolved, the frames
\* dispatched are the frames of the body, in order.
C1_SplitsDispatchTheSame ==
    (result = "resolved" /\ WellFormed(body)) => Dispatched = FramesOf(body)

\* C3: in a body where one malformed data line sits between valid frames,
\* exactly the valid frames are dispatched, in their order, and the promise
\* resolves unless the read itself fails.
OneMalformedBetween(b) ==
    LET ls == CompleteLines(b)
    IN  /\ Len(ls) >= 3
        /\ \E k \in 2..(Len(ls) - 1) :
              /\ IsMalformedLine(ls[k])
              /\ \A j \in DOMAIN ls : j # k => IsValidLine(ls[j])

C3_MalformedFrameSkipped ==
    (result # "none" /\ OneMalformedBetween(body)) =>
        /\ result \in {"resolved", "rejected:read"}
        /\ result = "resolved" => Dispatched = FramesOf(body)

\* C4: callbacks are invoked in the order in which their frames appear in
\* the body, and no frame is dispatched more than once: every invocation is
\* for a frame of the body, at that frame's offset, and the offsets of
\* successive invocations strictly increase.
C4_DispatchInStreamOrder ==
    /\ \A i \in DOMAIN calls : Dispatched[i] \in Range(FramesOf(body))
    /\ \A i, j \in DOMAIN calls : i < j => calls[i].at < calls[j].at

\* C4 witness: two different frames have been dispatched and the stream is
\* not yet drained.
C4_Witness ==
    /\ Len(calls) >= 2
    /\ calls[1].data # calls[2].data
    /\ rpos < Len(body)

\* C6: the promise resolves only after the stream is fully drained, and
\* every frame that follows an `end` frame has been dispatched by then.
C6_DrainedBeforeResolve ==
    result = "resolved" =>
        /\ rpos = Len(body)
        /\ \A i, j \in DOMAIN FramesOf(body) :
              (i < j /\ FramesOf(body)[i].data.type = "end")
                  => FramesOf(body)[j] \in Range(Dispatched)

\* C7: an `error` frame invokes onError and does not stop the processing:
\* the promise still resolves (unless the read itself fails), and by then
\* the error frame and every frame after it have been dispatched.
C7_ErrorFrameDoesNotStop ==
    (result # "none" /\ \E i \in DOMAIN FramesOf(body) :
                            FramesOf(body)[i].data.type = "error") =>
        /\ result \in {"resolved", "rejected:read"}
        /\ result = "resolved" =>
              \A i, j \in DOMAIN FramesOf(body) :
                  (i <= j /\ FramesOf(body)[i].data.type = "error")
                      => FramesOf(body)[j] \in Range(Dispatched)

-----------------------------------------------------------------------------
(* Claims about one exchange (SpecExchange).                               *)

TitleOfConv(id) ==
    LET i == CHOOSE i \in DOMAIN conversations : conversations[i].id = id
    IN  conversations[i].title

\* calls[k..n] is user_message, assistant_message_start(a), content(., a)*, end(a)
CompletedReply(k, n) ==
    /\ k >= 1 /\ n <= Len(calls) /\ n >= k + 2
    /\ calls[k].cb = "onUserMessage"
    /\ calls[k + 1].cb = "onAssistantMessageStart"
    /\ calls[n].cb = "onEnd"
    /\ calls[n].data.messageId = calls[k + 1].data.messageId
    /\ \A j \in (k + 2)..(n - 1) :
          /\ calls[j].cb = "onContent"
          /\ calls[j].data.messageId = calls[k + 1].data.messageId

RECURSIVE Fragments(_, _)
Fragments(k, n) ==
    IF k > n THEN <<>> ELSE calls[k].data.content \o Fragments(k + 1, n)

\* C2: when the request returns a non-success status or the response has
\* no readable body, sendMessageStream rejects, none of the five callbacks
\* has been invoked and no message has reached the cache.
C2_TransportFailureNoCallbacks ==
    result \in {"rejected:status", "rejected:reader"} =>
        /\ calls = <<>>
        /\ \A c \in DOMAIN messages : messages[c] = <<>>
        /\ sends[1] = Returned

\* C2 witness: the send was rejected for want of a reader.
C2_Witness == result = "rejected:reader" /\ sends[1] = Returned

\* C5: when the callbacks of a send have just received user_message(u),
\* assistant_message_start(a), content(f1, a) .. content(fn, a), end(a), the
\* target's message list ends with message a, whose content is f1 .. fn in
\* receipt order and whose isStreaming is false, preceded by message u.
C5_ReplyMaterialised ==
    (sends # <<>> /\ sends[1].pc = "reading") =>
        \A k \in DOMAIN calls :
            CompletedReply(k, Len(calls)) =>
                LET list == OldMessages(World, sends[1].target)
                    n == Len(list)
                IN  /\ n >= 2
                    /\ list[n] = [id |-> calls[k + 1].data.messageId,
                                  role |-> "assistant",
                                  content |-> Fragments(k + 2, Len(calls) - 1),
                                  timestamp |-> calls[k + 1].data.timestamp,
                                  isStreaming |-> FALSE]
                    /\ list[n - 1] = calls[k].data.message

\* C5 witness: the reply arrived in two different fragments.
C5_Witness ==
    /\ Len(calls) = 5
    /\ CompletedReply(1, 5)
    /\ calls[3].data.content # calls[4].data.content

\* C8: once a message's isStreaming flag is false, no step changes its
\* content.
C8_ContentFrozenAfterEnd ==
    [][\A c \in DOMAIN messages :
          c \in DOMAIN messages' =>
              \A k \in DOMAIN messages[c] :
                  (/\ k \in DOMAIN messages'[c]
                   /\ messages'[c][k].id = messages[c][k].id
                   /\ "isStreaming" \in DOMAIN messages[c][k]
                   /\ messages[c][k].isStreaming = FALSE)
                      => messages'[c][k].content = messages[c][k].content]_vars

\* C9: for a conversation with no messages when the send starts, once the
\* user message and a completed assistant reply have been received (and
\* however many times `end` is processed again), the conversation's title is
\* the message text, or its first 50 characters and "..." when it is longer.
C9_AutoTitle ==
    (/\ sends # <<>>
     /\ sends[1].pc = "reading"
     /\ \E n \in DOMAIN calls :
           /\ CompletedReply(1, n)
           /\ \A j \in (n + 1)..Len(calls) : calls[j] = calls[n])
        => TitleOfConv(sends[1].target) = TitleOf(sends[1].message)

-----------------------------------------------------------------------------
(* Claims about the titles of a session (Spec).                            *)

\* C10 as stated: the automatic rule gives a conversation at most one
\* title over the whole session, whatever sends, clears and other operations
\* happen in between.
C10_TitledAtMostOnce ==
    \A p \in titled : \A q \in titled : p[1] = q[1] => p[2] = q[2]

\* C10: a step changes a conversation's title to something other than the
\* default only by completing an exchange whose send started while that
\* conversation was selected, known to the list and showing at most one
\* message, and the new title is the one derived from that send's text; the
\* rule fires again for every such send, for instance after a clear.
C10_TitledOnlyByShortSends ==
    [][\A k \in DOMAIN conversations :
          (/\ k \in DOMAIN conversations'
           /\ conversations'[k].id = conversations[k].id
           /\ conversations'[k].title # conversations[k].title
           /\ conversations'[k].title # NewChat)
              => \E i \in DOMAIN sends :
                    /\ sends[i].pc = "reading"
                    /\ sends[i].target = conversations[k].id
                    /\ \E j \in DOMAIN sends[i].conversations :
                          sends[i].conversations[j] = sends[i].target
                    /\ sends[i].currentMessagesLength <= 1
                    /\ conversations'[k].title = TitleOf(sends[i].message)]_vars

\* C10 witness: the rule has given the first conversation two different
\* titles, and the conversation now carries the truncated one.
C10_Witness ==
    /\ conversations # <<>>
    /\ <<ConvId(1), TitleOf(ShortMessage)>> \in titled
    /\ <<ConvId(1), TitleOf(LongMessage)>> \in titled
    /\ TitleOfConv(ConvId(1)) = TitleOf(LongMessage)

-----------------------------------------------------------------------------
(* Claims about finalize, errors and concurrent sends.                     *)

\* C12: finalize is idempotent: for every state in which the callbacks of a
\* send can run and every message id, running onEnd twice gives the same
\* message lists, isStreaming flags, titles and session state as running it
\* once.
C12_FinalizeIdempotent ==
    (sends # <<>> /\ sends[1].pc = "reading") =>
        \A id \in IdChars :
            onEnd(onEnd(World, sends[1], id), sends[1], id) = onEnd(World, sends[1], id)

\* C12 witness: the `end` event of a message in the list was processed twice
\* in a row by a send that also sets the title.
C12_Witness ==
    /\ Len(calls) >= 3
    /\ calls[Len(calls)].cb = "onEnd"
    /\ calls[Len(calls) - 1].cb = "onEnd"
    /\ calls[Len(calls) - 1].data = calls[Len(calls)].data
    /\ sends[1].pc = "reading"
    /\ \E k \in DOMAIN OldMessages(World, sends[1].target) :
          OldMessages(World, sends[1].target)[k].id = calls[Len(calls)].data.messageId
    /\ TitleOfConv(sends[1].target) = TitleOf(sends[1].message)

InFlight(i) == sends[i].pc \in {"fetching", "reading"}

\* C18: at most one exchange is in flight per conversation: no two
\* sendMessage calls that have issued their request and not yet returned have
\* the same target conversation.
C18_OneExchangePerConversation ==
    \A i \in DOMAIN sends : \A j \in DOMAIN sends :
        (i # j /\ InFlight(i) /\ InFlight(j)) => sends[i].target # sends[j].target

\* C20: a step in which an `error` frame is processed or the read of the
\* stream fails sets the error banner, clears the session's isStreaming and
\* streamingMessageId, and leaves the assistant message that was in progress
\* with isStreaming false in the cache.
C20_ErrorEndsStreamingMessage ==
    [][(ExchangeFrame(ErrorData("x")) \/ ExchangeReadFails) =>
          /\ state'.error # Null
          /\ state'.isStreaming = FALSE
          /\ state'.streamingMessageId = Null
          /\ \A c \in DOMAIN messages' :
                \A k \in DOMAIN messages'[c] :
                    messages'[c][k].id = state.streamingMessageId
                        => messages'[c][k].isStreaming = FALSE]_vars

-----------------------------------------------------------------------------
(* Claims about the conversation list (SpecManage).                        *)

FirstOrNull(convs) == IF Len(convs) > 0 THEN convs[1].id ELSE Null

\* C11: a step in which a delete completes removes the conversation and its
\* message list from the cache; if the deleted conversation is the selected
\* one the selection becomes the first conversation of the remaining list, or
\* none when the list is empty, and otherwise the selection is unchanged.
C11_DeleteThenReselect ==
    [][\A d \in deletes :
          DeleteSucceeds(d) =>
              /\ ~HasConv(conversations', d.target)
              /\ d.target \notin DOMAIN messages'
              /\ state'.currentConversationId =
                    IF state.currentConversationId = d.target
                    THEN FirstOrNull(conversations')
                    ELSE state.currentConversationId]_vars


\* C13: while a user is signed in, a step in which a create request succeeds
\* (from the sidebar or inside sendMessage) puts the new conversation at the
\* head of the list with the previous conversations after it unchanged,
\* gives it an empty message list, keeps the other message lists and selects
\* it; a step in which the create request of a sendMessage call fails leaves
\* the list and the selection unchanged.
C13_CreateAtHeadAndSelect ==
    [][/\ (user /\ (createNewConversation \/ \E i \in DOMAIN sends : SendCreated(i))) =>
             /\ Len(conversations') = Len(conversations) + 1
             /\ conversations'[1].id = ConvId(nextId)
             /\ ~HasConv(conversations, ConvId(nextId))
             /\ Tail(conversations') = conversations
             /\ messages'[ConvId(nextId)] = <<>>
             /\ \A c \in DOMAIN messages : messages'[c] = messages[c]
             /\ state'.currentConversationId = ConvId(nextId)
       /\ (\E i \in DOMAIN sends : SendCreateFails(i)) =>
             /\ conversations' = conversations
             /\ state'.currentConversationId = state.currentConversationId]_vars

\* C13 witness: a second conversation was created in front of the first and
\* is selected, with an empty message list.
C13_Witness ==
    /\ Len(conversations) = 2
    /\ conversations[1].id = ConvId(2)
    /\ conversations[2].id = ConvId(1)
    /\ state.currentConversationId = ConvId(2)
    /\ messages[ConvId(2)] = <<>>


\* C14: a step in which the clear of a listed conversation succeeds empties
\* its message list and sets its title to "New Chat" while the conversation
\* keeps its place in the list; every other conversation, every other
\* message list and the selection are unchanged.  A step in which the clear
\* request fails changes nothing in the cache and sets an error.
C14_ClearResetsOnlyTarget ==
    [][\A n \in 1..MaxConvs :
          LET c == ConvId(n) IN
          /\ clearConversation(c) =>
                /\ messages'[c] = <<>>
                /\ \A c2 \in DOMAIN messages \ {c} :
                      c2 \in DOMAIN messages' /\ messages'[c2] = messages[c2]
                /\ DOMAIN messages' \subseteq DOMAIN messages \cup {c}
                /\ Len(conversations') = Len(conversations)
                /\ \A k \in DOMAIN conversations :
                      IF conversations[k].id = c
                      THEN /\ conversations'[k].id = c
                           /\ conversations'[k].title = NewChat
                      ELSE conversations'[k] = conversations[k]
                /\ state'.currentConversationId = state.currentConversationId
          /\ ClearFails(c) =>
                /\ conversations' = conversations
                /\ messages' = messages
                /\ state'.error = ClearFailed]_vars

\* C14 witness: the first conversation, which had been given a title by a
\* completed exchange, is back to "New Chat" with an empty message list.
C14_Witness ==
    /\ <<ConvId(1), TitleOf(ShortMessage)>> \in titled
    /\ HasConv(conversations, ConvId(1))
    /\ TitleOfConv(ConvId(1)) = NewChat
    /\ messages[ConvId(1)] = <<>>


\* C15: the step in which the user signs out drops all cached conversations
\* and all cached message lists and sets the selection to none.
C15_PurgeOnSignOut ==
    [][(user /\ ~user') =>
          /\ conversations' = <<>>
          /\ messages' = NoMessages
          /\ state'.currentConversationId = Null]_vars

\* C15 witness: the user of a session in which a conversation had been
\* created and titled by a completed exchange has signed out, and nothing is
\* cached or selected.
C15_Witness ==
    /\ ~user
    /\ titled # {}
    /\ conversations = <<>>
    /\ messages = NoMessages
    /\ state.currentConversationId = Null


\* the messages the callbacks append
AppendedMessages ==
    {UserMessageData("1", "h").message,
     [id |-> "2", role |-> "assistant", content |-> <<>>,
      timestamp |-> Timestamp, isStreaming |-> TRUE]}

ContentFrames == {data \in FrameData : data.type = "content"}

\* C17: a step in which a `content` frame names a message id that is not in
\* the target conversation's message list leaves the cache exactly as it was:
\* no message is created or altered and no message list is created.
C17_PatchOfAbsentIdIsNoOp ==
    [][\A i \in DOMAIN sends : \A data \in ContentFrames :
          (/\ StreamFrame(i, data)
           /\ \A k \in DOMAIN OldMessages(World, sends[i].target) :
                 OldMessages(World, sends[i].target)[k].id # data.messageId)
              => /\ messages' = messages
                 /\ conversations' = conversations]_vars

-----------------------------------------------------------------------------
(* Claims about message ids (SpecIds).                                     *)

\* the position of a message in the order in which the backend issued ids
IdNumber(id) == CHOOSE n \in 0..(MaxIdFrames + 1) : MessageId(n) = id

-----------------------------------------------------------------------------
(* Claims about the life of the stream session.                            *)

\* C21: the stream session is never active when no send is in flight: in
\* every reachable state in which isStreaming is true or streamingMessageId
\* is set, some sendMessage call has not yet returned.
C21_ActiveOnlyWhileSendInFlight ==
    (state.isStreaming \/ state.streamingMessageId # Null) =>
        \E i \in DOMAIN sends : sends[i] # Returned

\* the last callback other than onContent was onAssistantMessageStart: an
\* assistant message is open and no `end` or `error` frame has followed
OpenMessage ==
    \E k \in DOMAIN calls :
        /\ calls[k].cb = "onAssistantMessageStart"
        /\ \A j \in (k + 1)..Len(calls) : calls[j].cb = "onContent"

\* C22: a step in which the stream closes cleanly while an assistant message
\* is open resolves sendMessageStream and returns from sendMessage, invokes
\* no callback (onError included), sets no error banner, and leaves the open
\* message with isStreaming true and the session with isStreaming true and
\* streamingMessageId set.
C22_TruncationNotDetected ==
    [][(ExchangeCloses /\ OpenMessage) =>
          LET list == OldMessages([messages |-> messages'], sends[1].target)
          IN  /\ result' = "resolved"
              /\ sends'[1] = Returned
              /\ calls' = calls
              /\ state'.error = state.error
              /\ state'.isStreaming = TRUE
              /\ state'.streamingMessageId # Null
              /\ Len(list) > 0
              /\ list[Len(list)].id = state'.streamingMessageId
              /\ list[Len(list)].isStreaming = TRUE]_vars

\* C22 witness: sendMessage has returned from a stream that closed after a
\* fragment of the open message, with no error banner, and the session and
\* the message are still streaming.
C22_Witness ==
    /\ result = "resolved"
    /\ sends[1] = Returned
    /\ OpenMessage
    /\ calls[Len(calls)].cb = "onContent"
    /\ state.error = Null
    /\ state.isStreaming
    /\ \E c \in DOMAIN messages : \E k \in DOMAIN messages[c] :
          /\ messages[c][k].id = state.streamingMessageId
          /\ messages[c][k].content # <<>>
          /\ messages[c][k].isStreaming = TRUE


\* C23 as stated: a step in which the read of the response body fails
\* invokes no callback and sendMessageStream finishes without signalling an
\* error to its caller: the promise does not reject and no error reaches
\* the session.
C23_ReadFailureSilent ==
    [][ExchangeReadFails =>
          /\ calls' = calls
          /\ result' # "rejected:read"
          /\ state'.error = state.error]_vars

\* C23: a step in which the read of the response body fails invokes no
\* callback (onError included) and writes nothing to the cache, releases the
\* reader once and rejects the promise of sendMessageStream; the catch block
\* of sendMessage sets the error banner and resets isStreaming and
\* streamingMessageId, and sendMessage returns.  After the rejection no
\* further callback fires.
C23_ReadFailureRejects ==
    [][/\ ExchangeReadFails =>
             /\ calls' = calls
             /\ messages' = messages
             /\ conversations' = conversations
             /\ releases' = releases + 1
             /\ result' = "rejected:read"
             /\ sends'[1] = Returned
             /\ state'.error = SendFailed
             /\ state'.isStreaming = FALSE
             /\ state'.streamingMessageId = Null
       /\ result = "rejected:read" => calls' = calls]_vars

\* C23 witness: the read failed after a fragment of the open message had
\* been delivered; the promise is rejected and the banner is up.
C23_Witness ==
    /\ result = "rejected:read"
    /\ OpenMessage
    /\ calls[Len(calls)].cb = "onContent"
    /\ \A k \in DOMAIN calls : calls[k].cb # "onError"
    /\ state.error = SendFailed
    /\ sends[1] = Returned


-----------------------------------------------------------------------------
(* Claims about the reader (SpecStream).                                   *)

\* the call has left the read loop: the stream ended, or a read was rejected
\* (a network failure, or the abort of the underlying request)
LeftReadLoop == result \in {"resolved", "rejected:read"}

\* C24: the reader lock is released exactly once on every way out of the
\* read loop: in every reachable state releaseLock has been called once if
\* the call has left the read loop, by the end of the stream or by a rejected
\* read, and not at all before that or when no reader was obtained.
C24_ReaderReleasedOnce ==
    /\ LeftReadLoop => releases = 1
    /\ ~LeftReadLoop => releases = 0

\* C24 witness: a read was rejected in the middle of a body, after a callback
\* had been invoked, and the lock is released.
C24_Witness ==
    /\ result = "rejected:read"
    /\ calls # <<>>
    /\ rpos < Len(body)
    /\ releases = 1


-----------------------------------------------------------------------------
(* Claims about retries (SpecRetry).                                       *)

AuthErrors == {[code |-> AuthPrefix \o <<"x">>], [code |-> <<"x", "/">> \o AuthPrefix]}

RetryLimit(o) == IF o \in Queries THEN QueryRetries ELSE MutationRetries

\* C25: a failed attempt of a query is followed by another attempt while the
\* count of its earlier failures is below 3, that of a mutation while it is
\* below 2, and never when the error's code contains "auth/"; so the count
\* of failures of a query never exceeds 3 and that of a mutation never
\* exceeds 2, an operation that has ended in error reports the error of its
\* last attempt, and every operation that was started eventually ends, in
\* success or in error.
C25_RetriesBoundedAndEnd ==
    /\ [](\A o \in Operations :
             /\ ops[o].failureCount <= RetryLimit(o)
             /\ ops[o].status = "error" => ops[o].error \in Errors)
    /\ [][\A o \in Operations : \A e \in Errors :
             AttemptFails(o, e) =>
                 IF e \notin AuthErrors /\ ops[o].failureCount < RetryLimit(o)
                 THEN /\ ops'[o].status = "fetching"
                      /\ ops'[o].failureCount = ops[o].failureCount + 1
                 ELSE /\ ops'[o].status = "error"
                      /\ ops'[o].error = e]_vars
    /\ \A o \in Operations :
          (ops[o].status = "fetching") ~> (ops[o].status \in {"success", "error"})

\* C25 witness: the query has ended in error after three retries, one
\* mutation after two, and the other mutation on an auth error at its first
\* attempt.
C25_Witness ==
    /\ ops["conversations"].status = "error"
    /\ ops["conversations"].failureCount = 3
    /\ ops["createConversation"].status = "error"
    /\ ops["createConversation"].failureCount = 2
    /\ ops["deleteConversation"].status = "error"
    /\ ops["deleteConversation"].failureCount = 0
    /\ ops["deleteConversation"].error \in AuthErrors


-----------------------------------------------------------------------------
(* Claims about operations that overlap (SpecManage).                      *)

\* C26: in every reachable state with a signed-in user, the current
\* selection is none or the id of a conversation of the cached list.
C26_SelectionIsListed ==
    user => \/ state.currentConversationId = Null
            \/ HasConv(conversations, state.currentConversationId)


\* C27: while no user is signed in the cache is empty and the session is not
\* streaming: in every reachable state without a user there is no cached
\* conversation and no cached message list, and isStreaming is false.
C27_EmptyWhileSignedOut ==
    ~user => /\ conversations = <<>>
             /\ messages = NoMessages
             /\ state.isStreaming = FALSE


\* C28: after a conversation has been deleted the cache holds no message
\* list for it: in every reachable state with a signed-in user, a
\* conversation that the backend created and that is no longer in the list
\* has no cached message list.
C28_NoListForDeletedConversation ==
    user => \A n \in 1..MaxConvs :
                (n < nextId /\ ~HasConv(conversations, ConvId(n)))
                    => ConvId(n) \notin DOMAIN messages


\* C29: all cache writes of one send go to the conversation resolved when
\* the send started.  A step in which a frame of the send is processed leaves
\* every conversation of the list other than the send's target, and every
\* message list other than the target's, as they were, whatever has been
\* selected, created or deleted since the send started; and the message count
\* that the auto-title decision uses is the target's own: the count captured
\* by a sendMessage call is the length of the message list of the
\* conversation it resolved as its target.
C29_WritesGoToTarget ==
    [][/\ \A i \in DOMAIN sends : \A data \in FrameData :
             (frames' = frames + 1 /\ StreamFrame(i, data)) =>
                 /\ Len(conversations') = Len(conversations)
                 /\ \A k \in DOMAIN conversations :
                       conversations[k].id # sends[i].target
                           => conversations'[k] = conversations[k]
                 /\ \A c \in DOMAIN messages \ {sends[i].target} :
                       c \in DOMAIN messages' /\ messages'[c] = messages[c]
                 /\ DOMAIN messages' \subseteq DOMAIN messages \cup {sends[i].target}
       /\ (user /\ sendMessage(ShortMessage)) =>
             LET s == sends'[Len(sends')]
             IN  s.currentMessagesLength =
                    IF s.target = Null THEN 0
                    ELSE Len(OldMessages(World, s.target))
       /\ \A i \in DOMAIN sends :
             SendCreated(i) =>
                 sends'[i].currentMessagesLength =
                    Len(OldMessages([messages |-> messages'], sends'[i].target))]_vars

\* C29 witness: while the stream of a send to conversation 1 was in progress
\* the user deleted conversation 1 and has another conversation selected; the
\* frames that arrived since went to the list of conversation 1, and the
\* selected conversation is as it was created.
C29_Witness ==
    /\ user
    /\ sends # <<>>
    /\ sends[1].pc = "reading"
    /\ sends[1].target = ConvId(1)
    /\ ~HasConv(conversations, ConvId(1))
    /\ ConvId(1) \in DOMAIN messages
    /\ Len(messages[ConvId(1)]) = 2
    /\ state.currentConversationId = ConvId(2)
    /\ HasConv(conversations, ConvId(2))
    /\ messages[ConvId(2)] = <<>>
    /\ TitleOfConv(ConvId(2)) = NewChat


-----------------------------------------------------------------------------
(* Claims about a send with no conversation selected (SpecExchange).       *)

\* the first sendMessage call was made with no conversation selected and is
\* reading its stream
SendWithoutSelection ==
    /\ sends # <<>>
    /\ sends[1].pc = "reading"
    /\ sends[1].conversations = <<>>

\* C30: a sendMessage call made with no conversation selected has created
\* exactly one conversation, which is selected and receives the messages of
\* the stream; once the user message and a completed assistant reply have
\* been received, that conversation's title is the one derived from the
\* message text.
C30_SendCreatesAndTitles ==
    SendWithoutSelection =>
        /\ Len(conversations) = 1
        /\ conversations[1].id = sends[1].target
        /\ state.currentConversationId = sends[1].target
        /\ DOMAIN messages = {sends[1].target}
        /\ (\E n \in DOMAIN calls : CompletedReply(1, n) /\ n = Len(calls))
              => /\ Len(messages[sends[1].target]) = 2
                 /\ TitleOfConv(sends[1].target) = TitleOf(sends[1].message)

=============================================================================
